---- MODULE Spec2Model ----
(***************************************************************************)
(* Model of the master dispatcher of pokebot (src/src/bot/master.rs):      *)
(* the pool of names and identities (MusicBots), the event loop built by   *)
(* MasterBot::new, the worker creation protocol (build_bot_args_for and    *)
(* spawn_bot_for), the release callback disconnect_cb and MasterBot::quit. *)
(*                                                                         *)
(* The event loop is one task; its position is pc.  Every .await of the    *)
(* loop is a point where the other threads (the workers' tasks calling     *)
(* disconnect_cb, the caller of quit, the transport delivering events) can *)
(* take steps.                                                             *)
(*                                                                         *)
(* MasterArgs::merge is a pure function; under MergeSpec it is applied to  *)
(* every config file and command line of MergeInit.                        *)
(*                                                                         *)
(* The configured names are taken to be pairwise distinct strings (the     *)
(* server refuses two clients with one nickname), so a name is identified  *)
(* by its index: ConfigName(i).                                            *)
(***************************************************************************)
EXTENDS Integers, Sequences, FiniteSets, TLC

\* ---- bounds of the model ------------------------------------------------
MaxNames    == 2   \* config.names.len() ranges over 0..MaxNames
MaxIds      == 2   \* config.ids.len() ranges over 0..MaxIds
MaxEvents   == 2   \* events the transport delivers to the loop
MaxVerbose  == 3   \* verbosity levels 0..MaxVerbose are drawn for merge
NumUsers    == 2   \* clients other than the master
NumChannels == 3   \* channels of the server

VARIABLES
    name_count,       \* config.names.len()
    id_count,         \* config.ids.len()
    available_names,  \* MusicBots.available_names : Vec<usize>
    available_ids,    \* MusicBots.available_ids   : Vec<usize>
    connected_bots,   \* MusicBots.connected_bots  : name -> worker
    lock,             \* the RwLock around MusicBots: "free", "write", "read"
    rx,               \* the unbounded channel the loop receives from
    pc,               \* position of the event loop
    cur,              \* locals of the creation protocol in progress
    bots,             \* every MusicBotArgs/MusicBot built so far
    ts,               \* transport: effects of the master's own connection
    quit_pc,          \* position of the call of MasterBot::quit
    quit_reason,      \* its argument
    quit_todo,        \* workers its loop over connected_bots has yet to visit
    events,           \* events delivered by the transport so far
    quit_targets,     \* history: the workers registered when quit was called
    race,             \* history: two pokes queued together for the last pair
    merge_self,       \* MasterArgs::merge: self, the MasterArgs of the config
    merge_args,       \* MasterArgs::merge: args, the Args of the command line
    merged            \* what merge returned, <<>> before the call

vars == <<name_count, id_count, available_names, available_ids, connected_bots,
          lock, rx, pc, cur, bots, ts, quit_pc, quit_reason,
          quit_todo, events, quit_targets, race,
          merge_self, merge_args, merged>>

mergev == <<merge_self, merge_args, merged>>

pool == <<available_names, available_ids, connected_bots>>

\* ---- values --------------------------------------------------------------
Users    == 1..NumUsers
Channels == 1..NumChannels
None     == 0                       \* Option::None of a channel lookup
Reasons  == {"shutdown", "restart"}

\* The master's own ClientId (TeamSpeakConnection::my_id).
my_id == 0

ClientIds == {my_id} \cup Users

\* config.master_name and config.names[i]
master_name == <<"PokeBot", 0>>

ConfigName(i) == <<"bot", i>>

\* (0..n).collect::<Vec<usize>>()
RECURSIVE Range(_)
Range(n) == IF n = 0 THEN <<>> ELSE Append(Range(n - 1), n - 1)

SeqToSet(s) == {s[i] : i \in 1..Len(s)}

\* Vec::pop: the last element is removed
Last(s)  == s[Len(s)]

Front(s) == SubSeq(s, 1, Len(s) - 1)

\* slice.shuffle(rng): any reordering of the elements
Shuffles(s) ==
    {[i \in 1..Len(s) |-> s[p[i]]] :
        p \in {q \in [1..Len(s) -> 1..Len(s)] :
                 \A i, j \in 1..Len(s) : q[i] = q[j] => i = j}}

\* HashMap::insert and HashMap::remove
MapInsert(m, k, v) == [x \in DOMAIN m \cup {k} |-> IF x = k THEN v ELSE m[x]]

MapRemove(m, k) == [x \in DOMAIN m \ {k} |-> m[x]]

\* MusicBotMessage
Poke(who) == [kind |-> "TextMessage", target |-> [kind |-> "Poke", who |-> who]]

ChatText == [kind |-> "TextMessage", target |-> [kind |-> "Channel", who |-> None]]

QuitMsg(reason) == [kind |-> "Quit", reason |-> reason]

ClientDisconnected(id) == [kind |-> "ClientDisconnected", id |-> id]

ChannelAdded(id) == [kind |-> "ChannelAdded", id |-> id]

ClientAdded(id) == [kind |-> "ClientAdded", id |-> id]

OtherMsg == [kind |-> "Other"]

\* what the transport can deliver (Quit is sent by MasterBot::quit only)
TransportEvents ==
    {Poke(u) : u \in Users} \cup {ChatText, OtherMsg}
    \cup {ClientDisconnected(i) : i \in ClientIds}
    \cup {ChannelAdded(c) : c \in Channels}
    \cup {ClientAdded(i) : i \in ClientIds}

\* BotCreationError
NoError == [kind |-> "NoError"]

UnfoundUser == [kind |-> "UnfoundUser"]

MasterChannel(name) == [kind |-> "MasterChannel", name |-> name]

MultipleBots(name) == [kind |-> "MultipleBots", name |-> name]

OutOfNames == [kind |-> "OutOfNames"]

OutOfIdentities == [kind |-> "OutOfIdentities"]

\* impl Display for BotCreationError
Display(e) ==
    CASE e.kind = "UnfoundUser" ->
           [text |-> "I can't find you in the channel list", name |-> <<>>]
      [] e.kind = "MasterChannel" ->
           [text |-> "Joining the channel of {} is not allowed", name |-> e.name]
      [] e.kind = "MultipleBots" ->
           [text |-> "{} is already in this channel", name |-> e.name]
      [] e.kind = "OutOfNames" ->
           [text |-> "Out of names", name |-> <<>>]
      [] e.kind = "OutOfIdentities" ->
           [text |-> "Out of identities", name |-> <<>>]

\* locals of spawn_bot_for / build_bot_args_for when no protocol runs; path is
\* channel_path, None until channel_path_of_user has answered
\* (rel is history: the number of released workers when the outcome of the
\* protocol was decided)
NoCur == [who |-> None, channel |-> None, path |-> None, err |-> NoError,
          bot |-> 0, reason |-> "", rel |-> 0]

\* the master's own channel (TeamSpeakConnection::my_channel); it stays there
my_channel == 1

\* MusicBot::my_channel of worker b: a worker stays in its target channel
BotChannel(b) == bots[b].channel

\* MusicBot::name
BotName(b) == ConfigName(bots[b].name_index)

\* the process runs as long as the event loop does: the loop is the future
\* the process waits for, and a panic of the loop ends it too
Running == pc \notin {"done", "panicked"}

\* the workers that have called disconnect_cb
Released == {b \in 1..Len(bots) : bots[b].state = "released"}

\* the workers that hold their indices: allocated and not yet released
Live == {b \in 1..Len(bots) : bots[b].state \in {"args", "live"}}

\* the workers in the values of connected_bots
Registered == {connected_bots[n] : n \in DOMAIN connected_bots}

\* History of the first pair of pokes that were in the queue together when
\* one name and one identity were available.  stage: 0 no such pair yet, 1 the
\* first poke is being served, 2 it has ended, 3 the second has ended too.
\* rel0 is the number of released workers when the first poke was received;
\* a and b are the outcomes of the two protocols.
NoOutcome == [who |-> None, channel |-> None, result |-> "", rel |-> 0]

NoRace == [stage |-> 0, rel0 |-> 0, a |-> NoOutcome, b |-> NoOutcome]

Outcome(result) ==
    [who |-> cur.who, channel |-> cur.channel, result |-> result, rel |-> cur.rel]

\* race after a poke is received with the rest of the queue behind it
RaceAtRecv(behind) ==
    IF /\ race.stage = 0
       /\ Len(available_names) = 1
       /\ Len(available_ids) = 1
       /\ behind # <<>>
       /\ behind[1].kind = "TextMessage"
       /\ behind[1].target.kind = "Poke"
      THEN [race EXCEPT !.stage = 1, !.rel0 = Cardinality(Released)]
      ELSE race

\* race after a creation protocol has ended
RaceAtEnd(result) ==
    IF race.stage = 1 THEN [race EXCEPT !.stage = 2, !.a = Outcome(result)]
    ELSE IF race.stage = 2 THEN [race EXCEPT !.stage = 3, !.b = Outcome(result)]
    ELSE race

\* ---- construction ---------------------------------------------------------
Init ==
    /\ name_count \in 0..MaxNames
    /\ id_count \in 0..MaxIds
    /\ available_names = Range(name_count)
    /\ available_ids = Range(id_count)
    /\ connected_bots = <<>>
    /\ lock = "free"
    /\ rx = <<>>
    /\ pc = "recv"
    /\ cur = NoCur
    /\ bots = <<>>
    /\ ts = [disconnected |-> FALSE, reason |-> "", dms |-> <<>>,
             subscribed |-> {}, description |-> FALSE]
    /\ quit_pc = "idle"
    /\ quit_reason = ""
    /\ quit_todo = {}
    /\ events = 0
    /\ quit_targets = {}
    /\ race = NoRace
    /\ merge_self = <<>>
    /\ merge_args = <<>>
    /\ merged = <<>>



cfg == <<name_count, id_count>>

quitv == <<quit_pc, quit_reason, quit_todo, quit_targets>>

\* ---- the transport and the users -----------------------------------------
\* the transport hands the next event to the loop's channel (tx.send)
Deliver ==
    /\ Running
    /\ events < MaxEvents
    /\ \E m \in TransportEvents : rx' = Append(rx, m)
    /\ events' = events + 1
    /\ UNCHANGED <<mergev, cfg, pool, lock, pc, cur, bots, ts, quitv, race>>

\* ---- the event loop (msg_loop) ---------------------------------------------
\* OnMessageTs that sets the description when any client is added
OnMessageTs_AnyClient(msg) ==
    CASE msg.kind = "ChannelAdded" ->
           [ts EXCEPT !.subscribed = @ \cup {msg.id}]
      [] msg.kind = "ClientAdded" ->
           [ts EXCEPT !.description = TRUE]
      [] OTHER -> ts

\* on_message for every event but a poke: lines 203-216
OnMessageTs(msg) ==
    CASE msg.kind = "ChannelAdded" ->
           [ts EXCEPT !.subscribed = @ \cup {msg.id}]
      [] msg.kind = "ClientAdded" /\ msg.id = my_id ->
           [ts EXCEPT !.description = TRUE]
      [] OTHER -> ts

IsPoke(msg) == msg.kind = "TextMessage" /\ msg.target.kind = "Poke"

\* Recv that leaves the loop on the ClientDisconnected of any client
Recv_AnyDisconnect ==
    /\ pc = "recv"
    /\ rx # <<>>
    /\ LET msg == Head(rx) IN
         /\ rx' = Tail(rx)
         /\ IF msg.kind = "Quit"
              THEN /\ pc' = "disconnect"
                   /\ cur' = [NoCur EXCEPT !.reason = msg.reason]
                   /\ ts' = ts
            ELSE IF msg.kind = "ClientDisconnected"
              THEN /\ pc' = "done"
                   /\ cur' = cur
                   /\ ts' = ts
            ELSE IF IsPoke(msg)
              THEN /\ pc' = "channel_of_user"
                   /\ cur' = [NoCur EXCEPT !.who = msg.target.who]
                   /\ ts' = ts
            ELSE /\ pc' = "recv"
                 /\ cur' = cur
                 /\ ts' = OnMessageTs(msg)
         /\ race' = IF IsPoke(msg) THEN RaceAtRecv(Tail(rx)) ELSE race
    /\ UNCHANGED <<mergev, cfg, pool, lock, bots, quitv, events>>

\* rx.recv().await and the match on the message: lines 83-97, 195-217
Recv ==
    /\ pc = "recv"
    /\ rx # <<>>
    /\ LET msg == Head(rx) IN
         /\ rx' = Tail(rx)
         /\ IF msg.kind = "Quit"
              THEN /\ pc' = "disconnect"
                   /\ cur' = [NoCur EXCEPT !.reason = msg.reason]
                   /\ ts' = ts
            ELSE IF msg.kind = "ClientDisconnected"
              THEN /\ pc' = IF msg.id = my_id THEN "done" ELSE "recv"
                   /\ cur' = cur
                   /\ ts' = ts
            ELSE IF IsPoke(msg)
              THEN /\ pc' = "channel_of_user"
                   /\ cur' = [NoCur EXCEPT !.who = msg.target.who]
                   /\ ts' = ts
            ELSE /\ pc' = "recv"
                 /\ cur' = cur
                 /\ ts' = OnMessageTs(msg)
         /\ race' = IF IsPoke(msg) THEN RaceAtRecv(Tail(rx)) ELSE race
    /\ UNCHANGED <<mergev, cfg, pool, lock, bots, quitv, events>>

\* Disconnect that goes back to rx.recv() instead of leaving the loop
Disconnect_NoBreak ==
    /\ pc = "disconnect"
    /\ ts' = [ts EXCEPT !.disconnected = TRUE, !.reason = cur.reason]
    /\ pc' = "recv"
    /\ cur' = NoCur
    /\ UNCHANGED <<mergev, cfg, pool, lock, rx, bots, quitv, events, race>>

\* the Quit arm: cteamspeak.disconnect(&reason).await; break 'outer
Disconnect ==
    /\ pc = "disconnect"
    /\ ts' = [ts EXCEPT !.disconnected = TRUE, !.reason = cur.reason]
    /\ pc' = "done"
    /\ cur' = NoCur
    /\ UNCHANGED <<mergev, cfg, pool, lock, rx, bots, quitv, events, race>>

\* What the transport answers when asked where a user is: any channel, or
\* None for a user it does not know.  Users join, move and leave at any time,
\* so two lookups of one user are unrelated.
UserLookup == Channels \cup {None}

\* ChannelOfUser without the comparison with the master's channel
ChannelOfUser_NoMasterCheck ==
    /\ pc = "channel_of_user"
    /\ \E channel \in UserLookup :
         IF channel = None
           THEN /\ pc' = "deny"
                /\ cur' = [cur EXCEPT !.err = UnfoundUser,
                                      !.rel = Cardinality(Released)]
           ELSE /\ pc' = "write_lock"
                /\ cur' = [cur EXCEPT !.channel = channel]
    /\ UNCHANGED <<mergev, cfg, pool, lock, rx, bots, ts, quitv, events, race>>

\* build_bot_args_for, lines 106-116: channel_of_user, then my_channel
ChannelOfUser ==
    /\ pc = "channel_of_user"
    /\ \E channel \in UserLookup :
         IF channel = None
           THEN /\ pc' = "deny"
                /\ cur' = [cur EXCEPT !.err = UnfoundUser,
                                      !.rel = Cardinality(Released)]
         ELSE IF channel = my_channel
           THEN /\ pc' = "deny"
                /\ cur' = [cur EXCEPT !.channel = channel,
                                      !.err = MasterChannel(master_name),
                                      !.rel = Cardinality(Released)]
         ELSE /\ pc' = "write_lock"
              /\ cur' = [cur EXCEPT !.channel = channel]
    /\ UNCHANGED <<mergev, cfg, pool, lock, rx, bots, ts, quitv, events, race>>

\* line 123: self.music_bots.write(); the guard lives until the function returns
WriteLock ==
    /\ pc = "write_lock"
    /\ lock = "free"
    /\ lock' = "write"
    /\ pc' = "scan"
    /\ UNCHANGED <<mergev, cfg, pool, rx, cur, bots, ts, quitv, events, race>>

\* the names under which a worker that is in the channel is registered
BotsIn(channel) ==
    {n \in DOMAIN connected_bots : BotChannel(connected_bots[n]) = channel}

\* Scan that finds no worker in any channel
Scan_Skip ==
    /\ pc = "scan"
    /\ pc' = "channel_path"
    /\ UNCHANGED <<mergev, cfg, pool, lock, rx, cur, bots, ts, quitv, events, race>>

\* lines 125-129: the scan of connected_bots.values()
Scan ==
    /\ pc = "scan"
    /\ \/ /\ BotsIn(cur.channel) = {}
          /\ pc' = "channel_path"
          /\ cur' = cur
          /\ lock' = lock
       \/ \E n \in BotsIn(cur.channel) :
             /\ pc' = "deny"
             /\ cur' = [cur EXCEPT !.err = MultipleBots(BotName(connected_bots[n])),
                                   !.rel = Cardinality(Released)]
             /\ lock' = "free"
    /\ UNCHANGED <<mergev, cfg, pool, rx, bots, ts, quitv, events, race>>

\* MusicBotArgs as build_bot_args_for returns them (lines 165-175); before
\* and clean are history: the pool before the allocation, and whether no other
\* allocation or release has touched the pool since
MusicBotArgs(name_index, id_index, channel) ==
    [name_index |-> name_index, id_index |-> id_index, channel |-> channel,
     state |-> "args", quit |-> FALSE, clean |-> TRUE,
     before |-> [names |-> SeqToSet(available_names),
                 ids |-> SeqToSet(available_ids),
                 bots |-> connected_bots]]

\* history: the pool was touched on behalf of another worker
Touched == [b \in 1..Len(bots) |-> [bots[b] EXCEPT !.clean = FALSE]]

\* Allocate that looks at available_ids before it looks at available_names
Allocate_IdsFirst(channel_path) ==
    IF available_ids = <<>>
      THEN /\ pc' = "deny"
           /\ cur' = [cur EXCEPT !.path = channel_path,
                                 !.err = OutOfIdentities,
                                 !.rel = Cardinality(Released)]
           /\ UNCHANGED <<available_names, available_ids, bots>>
      ELSE \E names \in Shuffles(available_names) :
             IF names = <<>>
               THEN /\ available_names' = names
                    /\ pc' = "deny"
                    /\ cur' = [cur EXCEPT !.path = channel_path,
                                          !.err = OutOfNames,
                                          !.rel = Cardinality(Released)]
                    /\ UNCHANGED <<available_ids, bots>>
               ELSE \E ids \in Shuffles(available_ids) :
                      /\ available_names' = Front(names)
                      /\ available_ids' = Front(ids)
                      /\ pc' = "new"
                      /\ bots' = Append(Touched,
                                   MusicBotArgs(Last(names), Last(ids),
                                                channel_path))
                      /\ cur' = [cur EXCEPT !.path = channel_path,
                                            !.bot = Len(bots) + 1,
                                            !.rel = Cardinality(Released)]

\* Allocate that reads the last element of each Vec and leaves it there
Allocate_NoPop(channel_path) ==
    \E names \in Shuffles(available_names) :
      IF names = <<>>
        THEN /\ available_names' = names
             /\ pc' = "deny"
             /\ cur' = [cur EXCEPT !.path = channel_path,
                                   !.err = OutOfNames,
                                   !.rel = Cardinality(Released)]
             /\ UNCHANGED <<available_ids, bots>>
        ELSE \E ids \in Shuffles(available_ids) :
               /\ available_names' = names
               /\ available_ids' = ids
               /\ IF ids = <<>>
                    THEN /\ pc' = "deny"
                         /\ cur' = [cur EXCEPT !.path = channel_path,
                                               !.err = OutOfIdentities,
                                               !.rel = Cardinality(Released)]
                         /\ bots' = Touched
                    ELSE /\ pc' = "new"
                         /\ bots' = Append(Touched,
                                      MusicBotArgs(Last(names), Last(ids),
                                                   channel_path))
                         /\ cur' = [cur EXCEPT !.path = channel_path,
                                               !.bot = Len(bots) + 1,
                                               !.rel = Cardinality(Released)]

\* lines 136-151: the two shuffle-and-pop allocations
Allocate(channel_path) ==
    \E names \in Shuffles(available_names) :
      IF names = <<>>
        THEN /\ available_names' = names
             /\ pc' = "deny"
             /\ cur' = [cur EXCEPT !.path = channel_path,
                                   !.err = OutOfNames,
                                   !.rel = Cardinality(Released)]
             /\ UNCHANGED <<available_ids, bots>>
        ELSE \E ids \in Shuffles(available_ids) :
               /\ available_names' = Front(names)
               /\ IF ids = <<>>
                    THEN /\ available_ids' = ids
                         /\ pc' = "deny"
                         /\ cur' = [cur EXCEPT !.path = channel_path,
                                               !.err = OutOfIdentities,
                                               !.rel = Cardinality(Released)]
                         /\ bots' = Touched
                    ELSE /\ available_ids' = Front(ids)
                         /\ pc' = "new"
                         /\ bots' = Append(Touched,
                                      MusicBotArgs(Last(names), Last(ids),
                                                   channel_path))
                         /\ cur' = [cur EXCEPT !.path = channel_path,
                                               !.bot = Len(bots) + 1,
                                               !.rel = Cardinality(Released)]

\* lines 131-176: channel_path_of_user (the path of the channel the user is in
\* now), the allocation, the return; the write guard is dropped on return
ChannelPath ==
    /\ pc = "channel_path"
    /\ \E channel_path \in UserLookup :
         IF channel_path = None
           THEN \* .expect("can find poke sender") panics
                /\ pc' = "panicked"
                /\ UNCHANGED <<available_names, available_ids, bots, cur, lock>>
           ELSE /\ Allocate(channel_path)
                /\ lock' = "free"
    /\ UNCHANGED <<mergev, cfg, connected_bots, rx, ts, quitv, events, race>>

\* spawn_bot_for, lines 181-182: MusicBot::new(bot_args).await; tokio::spawn(fut)
New ==
    /\ pc = "new"
    /\ bots' = [bots EXCEPT ![cur.bot].state = "live"]
    /\ pc' = "insert"
    /\ UNCHANGED <<mergev, cfg, pool, lock, rx, cur, ts, quitv, events, race>>

\* spawn_bot_for, lines 183-186: connected_bots.insert under a fresh write guard
Insert ==
    /\ pc = "insert"
    /\ lock = "free"
    /\ connected_bots' = MapInsert(connected_bots, BotName(cur.bot), cur.bot)
    /\ pc' = "recv"
    /\ cur' = NoCur
    /\ race' = RaceAtEnd("Ok")
    /\ UNCHANGED <<mergev, cfg, available_names, available_ids, lock, rx, bots,
                   ts, quitv, events>>

\* Deny that drops the denial of an exhausted pool
Deny_Silent ==
    /\ pc = "deny"
    /\ ts' = IF cur.err.kind \in {"OutOfNames", "OutOfIdentities"}
               THEN ts
               ELSE [ts EXCEPT !.dms = Append(@, [to |-> cur.who,
                                                  text |-> Display(cur.err)])]
    /\ pc' = "recv"
    /\ cur' = NoCur
    /\ race' = RaceAtEnd(cur.err.kind)
    /\ UNCHANGED <<mergev, cfg, pool, lock, rx, bots, quitv, events>>

\* spawn_bot_for, lines 188-191: send_message_to_user(id, e.to_string())
Deny ==
    /\ pc = "deny"
    /\ ts' = [ts EXCEPT !.dms = Append(@, [to |-> cur.who, text |-> Display(cur.err)])]
    /\ pc' = "recv"
    /\ cur' = NoCur
    /\ race' = RaceAtEnd(cur.err.kind)
    /\ UNCHANGED <<mergev, cfg, pool, lock, rx, bots, quitv, events>>

\* ---- the workers ------------------------------------------------------------
\* disconnect_cb(n, name_index, id_index), lines 156-161
DisconnectCb(b) ==
    /\ lock = "free"
    /\ connected_bots' = MapRemove(connected_bots, BotName(b))
    /\ available_names' = Append(available_names, bots[b].name_index)
    /\ available_ids' = Append(available_ids, bots[b].id_index)

\* a spawned worker's connection ends and it calls its disconnect_cb, once
Release ==
    /\ Running
    /\ \E b \in 1..Len(bots) :
          /\ bots[b].state = "live"
          /\ DisconnectCb(b)
          /\ bots' = [Touched EXCEPT ![b] = [bots[b] EXCEPT !.state = "released"]]
    /\ UNCHANGED <<mergev, cfg, lock, rx, pc, cur, ts, quitv, events, race>>

\* ---- MasterBot::quit, called once ---------------------------------------------
\* line 276: the read guard; the loop of line 277 is about to start
QuitStart ==
    /\ Running
    /\ quit_pc = "idle"
    /\ lock = "free"
    /\ \E reason \in Reasons : quit_reason' = reason
    /\ lock' = "read"
    /\ quit_pc' = "fanout"
    /\ quit_todo' = Registered
    /\ quit_targets' = Registered
    /\ UNCHANGED <<mergev, cfg, pool, rx, pc, cur, bots, ts, events, race>>

\* lines 277-279: bot.quit(reason.clone()) for the next worker of the loop
QuitBot ==
    /\ Running
    /\ quit_pc = "fanout"
    /\ \E b \in quit_todo :
          /\ bots' = [bots EXCEPT ![b].quit = TRUE]
          /\ quit_todo' = quit_todo \ {b}
    /\ UNCHANGED <<mergev, cfg, pool, lock, rx, pc, cur, ts, quit_pc,
                   quit_reason, quit_targets, events, race>>

\* QuitSend that does not wait for the loop over the workers to end
QuitSend_Early ==
    /\ Running
    /\ quit_pc = "fanout"
    /\ rx' = Append(rx, QuitMsg(quit_reason))
    /\ lock' = "free"
    /\ quit_pc' = "returned"
    /\ UNCHANGED <<mergev, cfg, pool, pc, cur, bots, ts, quit_reason, quit_todo,
                   quit_targets, events, race>>

\* lines 280-282: after the loop, sender.send(Quit(reason)); the guards are dropped
QuitSend ==
    /\ Running
    /\ quit_pc = "fanout"
    /\ quit_todo = {}
    /\ rx' = Append(rx, QuitMsg(quit_reason))
    /\ lock' = "free"
    /\ quit_pc' = "returned"
    /\ UNCHANGED <<mergev, cfg, pool, pc, cur, bots, ts, quit_reason,
                   quit_todo, quit_targets, events, race>>

\* ---- MasterArgs::merge --------------------------------------------------------
\* Option<T>: None and Some(v)
NoOpt == <<>>

Some(v) == <<v>>

\* Option::unwrap_or and Option::or
unwrap_or(o, default) == IF o = NoOpt THEN default ELSE o[1]

or(o, optb) == IF o # NoOpt THEN o ELSE optb

Addresses == {"ts.example.org", "localhost"}

ChannelPaths == {"Lobby", "Music"}

\* the MasterArgs a config file deserializes to (lines 316-331)
ConfigFiles ==
    [master_name : {"PokeBot", "DJ"}, local : BOOLEAN, address : Addresses,
     channel : {NoOpt} \cup {Some(c) : c \in ChannelPaths},
     verbose : 0..MaxVerbose, domain : {"example.org", "localhost"},
     bind_address : {"127.0.0.1"}, names : {<<>>, <<"a", "b">>},
     id : {Some("id0")}, ids : {NoOpt, Some(<<"id1">>)}]

\* the fields of Args that merge reads (lines 346-349)
CommandLines ==
    [address : {NoOpt} \cup {Some(a) : a \in Addresses}, local : BOOLEAN,
     master_channel : {NoOpt} \cup {Some(c) : c \in ChannelPaths},
     verbose : 0..MaxVerbose]

\* merge that prefers the channel of the config file
merge_ConfigChannelFirst(self, args) ==
    LET address == unwrap_or(args.address, self.address)
        local   == args.local \/ self.local
        channel == or(self.channel, args.master_channel)
        verbose == IF args.verbose > 0 THEN args.verbose ELSE self.verbose
    IN  [master_name |-> self.master_name, names |-> self.names,
         ids |-> self.ids, local |-> local, address |-> address,
         domain |-> self.domain, bind_address |-> self.bind_address,
         id |-> self.id, channel |-> channel, verbose |-> verbose]

\* MasterArgs::merge, lines 345-369
merge(self, args) ==
    LET address == unwrap_or(args.address, self.address)
        local   == args.local \/ self.local
        channel == or(args.master_channel, self.channel)
        verbose == IF args.verbose > 0 THEN args.verbose ELSE self.verbose
    IN  [master_name |-> self.master_name, names |-> self.names,
         ids |-> self.ids, local |-> local, address |-> address,
         domain |-> self.domain, bind_address |-> self.bind_address,
         id |-> self.id, channel |-> channel, verbose |-> verbose]

\* before the call: any config file and any command line; no MasterBot yet
MergeInit ==
    /\ merge_self \in ConfigFiles
    /\ merge_args \in CommandLines
    /\ merged = <<>>
    /\ name_count = 0
    /\ id_count = 0
    /\ available_names = <<>>
    /\ available_ids = <<>>
    /\ connected_bots = <<>>
    /\ lock = "free"
    /\ rx = <<>>
    /\ pc = "recv"
    /\ cur = NoCur
    /\ bots = <<>>
    /\ ts = [disconnected |-> FALSE, reason |-> "", dms |-> <<>>,
             subscribed |-> {}, description |-> FALSE]
    /\ quit_pc = "idle"
    /\ quit_reason = ""
    /\ quit_todo = {}
    /\ events = 0
    /\ quit_targets = {}
    /\ race = NoRace

\* the call config.merge(args)
CallMerge ==
    /\ merged = <<>>
    /\ merged' = merge(merge_self, merge_args)
    /\ UNCHANGED <<merge_self, merge_args, cfg, pool, lock, rx, pc, cur, bots,
                   ts, quitv, events, race>>

MergeNext == CallMerge

MergeSpec == MergeInit /\ [][MergeNext]_vars

\* ---- the specification ------------------------------------------------------
Next ==
    \/ Deliver
    \/ Recv
    \/ Disconnect
    \/ ChannelOfUser
    \/ WriteLock
    \/ Scan
    \/ ChannelPath
    \/ New
    \/ Insert
    \/ Deny
    \/ Release
    \/ QuitStart
    \/ QuitBot
    \/ QuitSend

Spec == Init /\ [][Next]_vars

\* one step of the event loop, the future of MasterBot::new (lines 81-100)
LoopNext ==
    \/ Recv
    \/ Disconnect
    \/ ChannelOfUser
    \/ WriteLock
    \/ Scan
    \/ ChannelPath
    \/ New
    \/ Insert
    \/ Deny

\* The executor keeps polling the loop's future while it can take a step, and
\* quit is a synchronous function whose caller runs it to its end: the loop
\* and the call of quit are weakly fair.  The transport, the users and the
\* workers owe no step.
FairSpec ==
    /\ Init
    /\ [][Next]_vars
    /\ WF_vars(LoopNext)
    /\ WF_vars(QuitBot)
    /\ WF_vars(QuitSend)

\* ---- vocabulary of the properties --------------------------------------------
\* occurrences of x in a Vec
Count(s, x) == Cardinality({i \in 1..Len(s) : s[i] = x})

NameIndices == 0..(name_count - 1)

IdIndices == 0..(id_count - 1)

\* the live workers that hold name index i, identity index i
HoldersOfName(i) == {b \in Live : bots[b].name_index = i}

HoldersOfId(i) == {b \in Live : bots[b].id_index = i}

\* a step that builds or spawns no worker
NoWorkerStep ==
    /\ Len(bots') = Len(bots)
    /\ \A b \in 1..Len(bots) : bots'[b].state = bots[b].state

\* the BotCreationError variants
ErrorKinds ==
    {"UnfoundUser", "MasterChannel", "MultipleBots", "OutOfNames", "OutOfIdentities"}

\* ---- C1 ----------------------------------------------------------------------
\* C1: pool partition.  In every state each configured name index is either
\* once in available_names or held by exactly one live worker, never both and
\* never neither; likewise each identity index and available_ids.
C1_PoolPartition ==
    /\ \A i \in NameIndices :
          Count(available_names, i) + Cardinality(HoldersOfName(i)) = 1
    /\ \A i \in IdIndices :
          Count(available_ids, i) + Cardinality(HoldersOfId(i)) = 1

\* ---- C2 ----------------------------------------------------------------------
\* C2: allocation is all-or-nothing.  The step of the creation protocol that
\* fails with OutOfNames or OutOfIdentities leaves the same indices in
\* available_names and in available_ids as it found.
C2_AllOrNothing ==
    [][(pc = "channel_path" /\ pc' = "deny")
         => /\ SeqToSet(available_names') = SeqToSet(available_names)
            /\ SeqToSet(available_ids') = SeqToSet(available_ids)]_vars

\* ---- C3 ----------------------------------------------------------------------
\* C3: a creation attempt that ends in a BotCreationError builds and spawns no
\* worker and registers none; the steps up to the denial send nothing, the
\* denial sends exactly one direct message, the error's text, to the inviting
\* user; and the loop is then back at rx.recv() with the queue untouched.
C3_DenialIsDelivered ==
    [][/\ (pc \in {"channel_of_user", "write_lock", "scan", "channel_path"}
             /\ pc' \in {"write_lock", "scan", "channel_path", "deny"}
             /\ pc' # pc)
          => /\ ts' = ts
             /\ connected_bots' = connected_bots
             /\ rx' = rx
             /\ NoWorkerStep
       /\ (pc # "deny" /\ pc' = "deny")
          => /\ cur'.err.kind \in ErrorKinds
             /\ cur'.who = cur.who
             /\ NoWorkerStep
       /\ (pc = "deny" /\ pc' # "deny")
          => /\ pc' = "recv"
             /\ rx' = rx
             /\ ts' = [ts EXCEPT !.dms = Append(ts.dms,
                          [to |-> cur.who, text |-> Display(cur.err)])]
             /\ connected_bots' = connected_bots
             /\ NoWorkerStep]_vars

\* a denial was sent and the loop is serving the next poke
C3_Witness ==
    /\ Len(ts.dms) = 1
    /\ ts.dms[1].text = Display(OutOfIdentities)
    /\ pc = "channel_of_user"

\* ---- C4 ----------------------------------------------------------------------
\* C4: one worker per channel.  In every state no two entries of
\* connected_bots are workers in the same channel.
C4_OneWorkerPerChannel ==
    \A n, m \in DOMAIN connected_bots :
       n # m => BotChannel(connected_bots[n]) # BotChannel(connected_bots[m])

\* ---- C5 ----------------------------------------------------------------------
\* the two invitations came from users found in two different channels, neither
\* the master's, neither hosting a worker
RacePremise ==
    /\ race.stage = 3
    /\ race.a.channel \in Channels \ {my_channel}
    /\ race.b.channel \in Channels \ {my_channel}
    /\ race.a.channel # race.b.channel
    /\ race.a.result # "MultipleBots"
    /\ race.b.result # "MultipleBots"

Exhausted == {"OutOfNames", "OutOfIdentities"}

ExactlyOneSucceeds ==
    \/ race.a.result = "Ok" /\ race.b.result \in Exhausted
    \/ race.b.result = "Ok" /\ race.a.result \in Exhausted

\* C5 as claimed: of two pokes queued together when one name and one identity
\* are available, exactly one ends in a registered worker and the other in
\* OutOfNames or OutOfIdentities.
C5_ExactlyOne == RacePremise => ExactlyOneSucceeds

\* C5 as amended: the same, provided no worker was released between the
\* receipt of the first poke and the allocation of the second; in any case at
\* least one of the two succeeds, and no name index and no identity index is
\* ever held by two live workers.
C5_ExactlyOneUnlessReleased ==
    /\ (RacePremise /\ race.b.rel = race.rel0) => ExactlyOneSucceeds
    /\ RacePremise => "Ok" \in {race.a.result, race.b.result}
    /\ \A i \in NameIndices : Cardinality(HoldersOfName(i)) <= 1
    /\ \A i \in IdIndices : Cardinality(HoldersOfId(i)) <= 1

\* both pokes were served, no release in between: one worker, one denial
C5_Witness ==
    /\ RacePremise
    /\ race.b.rel = race.rel0
    /\ race.a.result = "Ok"
    /\ race.b.result = "OutOfNames"

\* ---- C6 ----------------------------------------------------------------------
\* C6: when channel_of_user resolves the inviting user to the master's own
\* channel, the protocol fails with MasterChannel(master_name) whatever the
\* pools and connected_bots hold, and neither that step nor the denial that
\* follows changes available_names, available_ids or connected_bots.
C6_MasterChannelRejected ==
    [][/\ (pc = "channel_of_user" /\ pc' # pc /\ cur'.channel = my_channel)
          => /\ pc' = "deny"
             /\ cur'.err = MasterChannel(master_name)
             /\ pool' = pool
       /\ (pc = "deny" /\ pc' # pc /\ cur.channel = my_channel)
          => /\ cur.err = MasterChannel(master_name)
             /\ pool' = pool]_vars

\* a poke from the master's channel is denied while a worker is registered
\* and no name is left
C6_Witness ==
    /\ pc = "deny"
    /\ cur.channel = my_channel
    /\ cur.err.kind = "MasterChannel"
    /\ connected_bots # <<>>
    /\ available_names = <<>>

\* ---- C7 ----------------------------------------------------------------------
\* C7: when the scan finds a registered worker in the inviting user's channel,
\* the protocol fails with MultipleBots carrying the name under which such a
\* worker is registered, and no step of that attempt (the lookup, the lock,
\* the scan, the denial) changes available_names, available_ids or
\* connected_bots.
C7_OccupiedChannelRejected ==
    [][/\ (pc = "scan" /\ pc' # pc /\ BotsIn(cur.channel) # {})
          => /\ pc' = "deny"
             /\ \E n \in BotsIn(cur.channel) : cur'.err = MultipleBots(n)
       /\ (pc \in {"channel_of_user", "write_lock", "scan"} /\ pc' # pc)
          => pool' = pool
       /\ (pc = "deny" /\ pc' # pc /\ cur.err.kind = "MultipleBots")
          => pool' = pool]_vars

\* a poke from a channel that hosts a worker is being denied with that
\* worker's name
C7_Witness ==
    /\ pc = "deny"
    /\ cur.err.kind = "MultipleBots"
    /\ cur.err.name \in BotsIn(cur.channel)

\* ---- C8 ----------------------------------------------------------------------
\* C8: allocate-then-release round trip.  The step in which worker b calls
\* disconnect_cb leaves b's name out of connected_bots and b's two indices in
\* the available Vecs; and when nothing else has touched the pool since b was
\* allocated, available_names and available_ids (as sets) and connected_bots
\* are what they were right before b's allocation.
C8_RoundTrip ==
    [][\A b \in 1..Len(bots) :
         (bots[b].state = "live" /\ bots'[b].state = "released")
         => /\ BotName(b) \notin DOMAIN connected_bots'
            /\ bots[b].name_index \in SeqToSet(available_names')
            /\ bots[b].id_index \in SeqToSet(available_ids')
            /\ bots[b].clean
               => /\ SeqToSet(available_names') = bots[b].before.names
                  /\ SeqToSet(available_ids') = bots[b].before.ids
                  /\ connected_bots' = bots[b].before.bots]_vars

\* ---- C9 ----------------------------------------------------------------------
\* C9: shutdown ordering.  Once the loop has taken the Quit event, and so when
\* the master's transport is disconnected, every worker that was registered
\* when quit was called has been sent its quit instruction.
C9_QuitBeforeDisconnect ==
    (pc = "disconnect" \/ ts.disconnected)
       => \A b \in quit_targets : bots[b].quit

\* the master is disconnected after a quit that found two registered workers,
\* one of which has not shut down yet
C9_Witness ==
    /\ ts.disconnected
    /\ Cardinality(quit_targets) = 2
    /\ \E b \in quit_targets : bots[b].state = "live"

\* ---- C10 ---------------------------------------------------------------------
\* C10: once quit has issued its broadcast and queued the Quit event, no step
\* builds, spawns or registers a worker.
C10_NoCreationAfterQuit ==
    [][quit_pc = "returned"
         => /\ NoWorkerStep
            /\ DOMAIN connected_bots' \subseteq DOMAIN connected_bots]_vars

Dequeue == pc = "recv" /\ Len(rx') < Len(rx)

\* C12: when the loop takes a ClientDisconnected event whose id is the
\* master's own, it terminates, and a terminated loop takes no further event
\* and changes nothing; when the id is another client's, the loop is back at
\* rx.recv() and available_names, available_ids and connected_bots are
\* unchanged.
C12_OwnDisconnectEndsLoop ==
    [][/\ (Dequeue /\ Head(rx).kind = "ClientDisconnected")
          => IF Head(rx).id = my_id
               THEN pc' = "done" /\ ts' = ts
               ELSE pc' = "recv" /\ pool' = pool /\ bots' = bots /\ ts' = ts
       /\ (pc = "done")
          => (pc' = "done" /\ rx' = rx /\ pool' = pool /\ bots' = bots
                /\ ts' = ts)]_vars

\* the loop has ended on the master's own ClientDisconnected: the transport
\* was not disconnected and an event is left in the queue
C12_Witness ==
    /\ pc = "done"
    /\ ~ts.disconnected
    /\ rx # <<>>

\* ---- C13 ---------------------------------------------------------------------
\* a process argument was explicitly given: an Option is Some, the flag
\* local is set, the count of -v is not zero
AddressGiven == merge_args.address # NoOpt

ChannelGiven == merge_args.master_channel # NoOpt

VerboseGiven == merge_args.verbose # 0

LocalGiven == merge_args.local

\* C13: config merge precedence.  For the server address, the home channel,
\* the verbosity and the local flag, merge yields the value of the process
\* argument when it was explicitly given and the value of the config file
\* otherwise; master_name, names, ids, id, domain and bind_address are those of
\* the config file.
C13_MergePrecedence ==
    merged # <<>>
      => /\ merged.address = IF AddressGiven THEN merge_args.address[1]
                                              ELSE merge_self.address
         /\ merged.channel = IF ChannelGiven THEN merge_args.master_channel
                                              ELSE merge_self.channel
         /\ merged.verbose = IF VerboseGiven THEN merge_args.verbose
                                              ELSE merge_self.verbose
         /\ merged.local = IF LocalGiven THEN merge_args.local
                                          ELSE merge_self.local
         /\ merged.master_name = merge_self.master_name
         /\ merged.names = merge_self.names
         /\ merged.ids = merge_self.ids
         /\ merged.id = merge_self.id
         /\ merged.domain = merge_self.domain
         /\ merged.bind_address = merge_self.bind_address

\* merge has run on a command line that gives another address and another
\* channel than the config file and leaves the verbosity and the flag alone
C13_Witness ==
    /\ merged # <<>>
    /\ AddressGiven /\ merged.address # merge_self.address
    /\ ChannelGiven /\ merge_self.channel # NoOpt
    /\ merged.channel # merge_self.channel
    /\ ~VerboseGiven /\ merged.verbose = 2
    /\ ~LocalGiven /\ merged.local

\* ---- C14 ---------------------------------------------------------------------
\* C14: the write lock on the pool is held by the creation protocol at every
\* point from the uniqueness check through the allocation to the
\* registration.
C14_LockHeldToRegistration ==
    pc \in {"scan", "channel_path", "new", "insert"} => lock = "write"

\* ---- C15 ---------------------------------------------------------------------
\* C15: when the path of the user's channel cannot be resolved after the
\* lookup, the master-channel check and the uniqueness check have passed, the
\* step consumes no name index and no identity index, builds and spawns no
\* worker, leaves the lock free, and the loop goes on (to the denial or to
\* the next event).
C15_PathFailureIsSurvived ==
    [][(pc = "channel_path" /\ pc' # pc /\ cur'.path = None)
         => /\ pool' = pool
            /\ NoWorkerStep
            /\ lock' = "free"
            /\ pc' \in {"deny", "recv"}]_vars

\* ---- C16 ---------------------------------------------------------------------
\* C16: validation order.  The errors are decided in the order UnfoundUser,
\* MasterChannel, MultipleBots, OutOfNames, OutOfIdentities: a user the
\* transport cannot locate gets UnfoundUser whatever the pool holds; a user in
\* the master's channel gets MasterChannel; past these, a worker registered
\* in the user's channel gives MultipleBots; and once the path is resolved,
\* OutOfNames is the outcome exactly when available_names is empty (whatever
\* available_ids holds), OutOfIdentities exactly when a name is available and
\* available_ids is empty.  Each error is raised at its own step only.
C16_ValidationOrder ==
    [][/\ (pc = "channel_of_user" /\ pc' # pc)
          => /\ pc' \in {"deny", "write_lock"}
             /\ (cur'.channel = None)
                  <=> (pc' = "deny" /\ cur'.err = UnfoundUser)
             /\ (cur'.channel = my_channel)
                  <=> (pc' = "deny" /\ cur'.err.kind = "MasterChannel")
       /\ (pc = "scan" /\ pc' # pc)
          => /\ pc' \in {"deny", "channel_path"}
             /\ (BotsIn(cur.channel) # {})
                  <=> (pc' = "deny" /\ cur'.err.kind = "MultipleBots")
       /\ (pc = "channel_path" /\ pc' # pc /\ cur'.path # None)
          => /\ pc' \in {"deny", "new"}
             /\ (available_names = <<>>)
                  <=> (pc' = "deny" /\ cur'.err = OutOfNames)
             /\ (available_names # <<>> /\ available_ids = <<>>)
                  <=> (pc' = "deny" /\ cur'.err = OutOfIdentities)
       /\ (pc # "deny" /\ pc' = "deny")
          => pc = CASE cur'.err.kind \in {"UnfoundUser", "MasterChannel"}
                         -> "channel_of_user"
                    [] cur'.err.kind = "MultipleBots" -> "scan"
                    [] cur'.err.kind \in {"OutOfNames", "OutOfIdentities"}
                         -> "channel_path"]_vars

\* an invitation that passed the first four steps is denied with OutOfNames
\* while a name and an identity are configured and available_ids is empty too
C16_Witness ==
    /\ pc = "deny"
    /\ cur.err = OutOfNames
    /\ cur.path # None
    /\ available_ids = <<>>
    /\ name_count > 0
    /\ id_count > 0

\* ---- C17 ---------------------------------------------------------------------
\* the loop goes on to the next event and has left the pool, the lock and
\* the workers alone
Ignored == pc' = "recv" /\ pool' = pool /\ bots' = bots /\ lock' = lock

\* C17: an event that is no poke, no Quit and not the master's own
\* ClientDisconnected changes neither available_names, available_ids nor
\* connected_bots and builds no worker.  ChannelAdded only subscribes to the
\* channel; ClientAdded only sets the master's description, and only for the
\* master's own id; a TextMessage that is no poke and every other kind of
\* event have no effect.
C17_OtherEventsIgnored ==
    [][Dequeue
         => LET msg == Head(rx) IN
            /\ (msg.kind = "ChannelAdded")
                 => (Ignored /\ ts' = [ts EXCEPT !.subscribed = @ \cup {msg.id}])
            /\ (msg.kind = "ClientAdded" /\ msg.id = my_id)
                 => (Ignored /\ ts' = [ts EXCEPT !.description = TRUE])
            /\ (msg.kind = "ClientAdded" /\ msg.id # my_id)
                 => (Ignored /\ ts' = ts)
            /\ (msg.kind = "TextMessage" /\ msg.target.kind # "Poke")
                 => (Ignored /\ ts' = ts)
            /\ (msg.kind = "ClientDisconnected" /\ msg.id # my_id)
                 => (Ignored /\ ts' = ts)
            /\ (msg.kind = "Other")
                 => (Ignored /\ ts' = ts)]_vars

\* the loop has handled a ChannelAdded and the ClientAdded of another client:
\* one subscription, no description, nothing else
C17_Witness ==
    /\ pc = "recv"
    /\ rx = <<>>
    /\ events = 2
    /\ ts.subscribed # {}
    /\ ~ts.description
    /\ bots = <<>>
    /\ name_count > 0

\* ---- C18 ---------------------------------------------------------------------
\* C18: no stale registration.  No entry of connected_bots is a worker whose
\* release callback has fired, and no entry is a worker whose name index is
\* in available_names.
C18_NoStaleRegistration ==
    \A n \in DOMAIN connected_bots :
       /\ connected_bots[n] \notin Released
       /\ bots[connected_bots[n]].name_index \notin SeqToSet(available_names)

\* ---- C19 ---------------------------------------------------------------------
\* C19: no spurious exhaustion.  An invitation is denied with OutOfNames only
\* when every configured name index is held by a live worker, and with
\* OutOfIdentities only when every configured identity index is held by a
\* live worker.
C19_NoSpuriousExhaustion ==
    [][(pc # "deny" /\ pc' = "deny")
         => /\ (cur'.err = OutOfNames)
                 => \A i \in NameIndices : HoldersOfName(i) # {}
            /\ (cur'.err = OutOfIdentities)
                 => \A i \in IdIndices : HoldersOfId(i) # {}]_vars

====
